---- MODULE Spec2Model ----
(***************************************************************************)
(* zipper<T> over node<T> (src/zipper/zipper.hpp).                         *)
(*                                                                         *)
(* The model works at the level of storage: every node object lives at an  *)
(* address <<b, i>> (slot i of heap buffer b); the root lives inside the   *)
(* zipper object at Root.  node::children is a std::vector<node<T>>: a     *)
(* header (buffer, size) stored in the node and a heap buffer holding the  *)
(* child objects contiguously.  node::parent and zipper::current are raw   *)
(* addresses.  Growing a full vector allocates a larger buffer, move-      *)
(* constructs the elements into it and frees the old buffer, so addresses  *)
(* stored before the growth may designate freed storage afterwards.        *)
(*                                                                         *)
(* Dereferencing an address that holds no live object is undefined         *)
(* behaviour.  Its outcomes are modelled as a choice between               *)
(*   - the process being killed (res = "crash"),                           *)
(*   - the access seeing the bytes the destroyed object left behind, and   *)
(*   - the access seeing an unrelated object, when the allocator has       *)
(*     handed the freed buffer out again (AllocChoices).                   *)
(***************************************************************************)
EXTENDS Integers, Sequences, FiniteSets, TLC

\* ---------------------------------------------------------------- bounds
MaxNodes == 3      \* number of entre_new_branch calls explored
NumValues == 2     \* values of T explored: 1..NumValues
MaxArg == 2        \* largest argument of step_back(n) / step_forward(i)
MaxReuseNodes == 4 \* number of entre_new_branch calls explored by SpecReuse

Values == 1..NumValues
Args == (0 - 1)..MaxArg

\* ------------------------------------------------------------- addresses
Root == <<0, 1>>   \* &zipper::root
NULL == <<0, 0>>   \* nullptr

\* an empty std::vector: no buffer, size 0, capacity 0
NullVec == [buf |-> 0, size |-> 0]

VARIABLES
    mem,      \* address -> node object (or the bytes a destroyed one left)
    bufs,     \* heap buffers: sequence of [st, cap]
    current,  \* zipper::current
    nextId,   \* number of nodes created so far (history)
    last      \* the last call: operation, argument, outcome (history)

vars == <<mem, bufs, current, nextId, last>>

\* mutant of NewNode: the parent back-reference is not stored
NewNode_noparent(p, v, n) ==
    [children |-> NullVec, parent |-> NULL, value |-> v, id |-> n]

\* mutant of NewNode: every node is given the root as its parent
NewNode_rootparent(p, v, n) ==
    [children |-> NullVec, parent |-> IF p = <<0, 0>> THEN p ELSE <<0, 1>>,
     value |-> v, id |-> n]

\* node(node* parent, const T& value); id is the creation serial (history)
NewNode(p, v, n) == [children |-> NullVec, parent |-> p, value |-> v, id |-> n]

\* write r at address a
Store(m, a, r) == [x \in (DOMAIN m) \cup {a} |-> IF x = a THEN r ELSE m[x]]

\* children.capacity()
Capacity(bs, h) == IF h.buf = 0 THEN 0 ELSE bs[h.buf].cap

\* capacity chosen on growth: size + max(size, 1)
GrowCap(bs, h) == IF Capacity(bs, h) = 0 THEN 1 ELSE 2 * Capacity(bs, h)

\* buffers operator new may return for a request of n slots: fresh storage,
\* or a freed buffer of the same size
AllocChoices(bs, n) ==
    {Len(bs) + 1} \cup {b \in 1..Len(bs) : bs[b].st = "freed" /\ bs[b].cap = n}

Allocate(bs, k, n) ==
    IF k = Len(bs) + 1 THEN Append(bs, [st |-> "alloc", cap |-> n])
    ELSE [bs EXCEPT ![k].st = "alloc"]

Deallocate(bs, b) == IF b = 0 THEN bs ELSE [bs EXCEPT ![b].st = "freed"]

\* mutant of MoveElements: the elements arrive in reverse order
RECURSIVE MoveElements_reversed(_, _, _, _, _)
MoveElements_reversed(m, old, k, i, n) ==
    IF i > n THEN m
    ELSE LET src == m[<<old, i>>]
             m1 == Store(m, <<k, n + 1 - i>>, src)
             m2 == Store(m1, <<old, i>>, [m1[<<old, i>>] EXCEPT !.children = NullVec])
         IN MoveElements_reversed(m2, old, k, i + 1, n)

\* move-construct elements i..n of buffer old into buffer k; the moved-from
\* element keeps parent and value, its children vector is left empty
RECURSIVE MoveElements(_, _, _, _, _)
MoveElements(m, old, k, i, n) ==
    IF i > n THEN m
    ELSE LET src == m[<<old, i>>]
             m1 == Store(m, <<k, i>>, src)
             m2 == Store(m1, <<old, i>>, [m1[<<old, i>>] EXCEPT !.children = NullVec])
         IN MoveElements(m2, old, k, i + 1, n)

\* mutant of EmplaceMem: on growth the earlier children are not carried over
EmplaceMem_drop(m, bs, this, v, n, k) ==
    LET h == m[this].children IN
    IF h.size < Capacity(bs, h)
    THEN LET m1 == Store(m, <<h.buf, h.size + 1>>, NewNode(this, v, n))
         IN Store(m1, this, [m1[this] EXCEPT !.children.size = h.size + 1])
    ELSE LET m1 == Store(m, <<k, 1>>, NewNode(this, v, n))
         IN Store(m1, this, [m1[this] EXCEPT !.children = [buf |-> k, size |-> 1]])

\* node::emplace_branch: children.emplace_back(this, value), storage in k
\* when the vector has to grow
EmplaceMem(m, bs, this, v, n, k) ==
    LET h == m[this].children IN
    IF h.size < Capacity(bs, h)
    THEN LET m1 == Store(m, <<h.buf, h.size + 1>>, NewNode(this, v, n))
         IN Store(m1, this, [m1[this] EXCEPT !.children.size = h.size + 1])
    ELSE LET m1 == Store(m, <<k, h.size + 1>>, NewNode(this, v, n))
             m2 == MoveElements(m1, h.buf, k, 1, h.size)
         IN Store(m2, this, [m2[this] EXCEPT !.children = [buf |-> k, size |-> h.size + 1]])

EmplaceBufs(m, bs, this, k) ==
    LET h == m[this].children IN
    IF h.size < Capacity(bs, h) THEN bs
    ELSE Deallocate(Allocate(bs, k, GrowCap(bs, h)), h.buf)

\* the address holds a live node object: the root, or a constructed element
\* of some vector's buffer
Live(m, bs, a) ==
    \/ a = Root
    \/ /\ a[1] # 0
       /\ bs[a[1]].st = "alloc"
       /\ \E o \in DOMAIN m : m[o].children.buf = a[1] /\ a[2] <= m[o].children.size

\* the children of the node at a, in order: &children[0], &children[1], ...
Kids(m, a) == [i \in 1..m[a].children.size |-> <<m[a].children.buf, i>>]

KidSet(m, a) == {Kids(m, a)[i] : i \in DOMAIN Kids(m, a)}

\* the nodes of the tree: what is reachable from the root by child links
RECURSIVE Reach(_, _)
Reach(m, S) ==
    LET T == S \cup UNION {KidSet(m, a) : a \in S}
    IN IF T = S THEN S ELSE Reach(m, T)

InTree(m) == Reach(m, {Root})

\* the node whose children sequence contains the node at a
ParentNode(m, a) == CHOOSE o \in InTree(m) : a \in KidSet(m, o)

\* number of child links from the root to the node at a
RECURSIVE Depth(_, _)
Depth(m, a) == IF a = Root THEN 0 ELSE 1 + Depth(m, ParentNode(m, a))

\* the n-th ancestor of the node at a (n <= Depth)
RECURSIVE Ancestor(_, _, _)
Ancestor(m, a, n) == IF n = 0 THEN a ELSE Ancestor(m, ParentNode(m, a), n - 1)

\* the tree below the node at a, without addresses
RECURSIVE Shape(_, _)
Shape(m, a) ==
    [id |-> m[a].id, value |-> m[a].value,
     kids |-> [i \in DOMAIN Kids(m, a) |-> Shape(m, Kids(m, a)[i])]]

\* mutant of can_step_back: the root is not recognised
can_step_back_always(m, cur) == TRUE

\* zipper::can_step_back
can_step_back(m, cur) == m[cur].parent # NULL

\* mutant of invalid_branch: off by one at the upper end
invalid_branch_offbyone(m, cur, branch) ==
    branch < 0 \/ branch > m[cur].children.size

\* the two range checks of zipper::step_forward
invalid_branch(m, cur, branch) ==
    branch < 0 \/ branch >= m[cur].children.size

\* mutant of branch_addr: always the last child
branch_addr_last(m, cur, branch) ==
    <<m[cur].children.buf, m[cur].children.size>>

\* &current->children[branch]
branch_addr(m, cur, branch) == <<m[cur].children.buf, branch + 1>>

\* mutant of back_addr: the first child instead of the last
back_addr_front(m, cur) == <<m[cur].children.buf, 1>>

\* &current->children.back()
back_addr(m, cur) == <<m[cur].children.buf, m[cur].children.size>>

Call(op, arg, res, from, moves) ==
    [op |-> op, arg |-> arg, res |-> res, from |-> from, moves |-> moves]

Running == last.res # "crash"

\* zipper<T> z(v): root{nullptr, v}, current{&root}
Init ==
    /\ mem = Store(<<>>, Root, NewNode(NULL, 1, 0))
    /\ bufs = <<>>
    /\ current = Root
    /\ nextId = 1
    /\ last = Call("init", 0, "ok", Root, 0)

\* the process dies on an access to storage that holds no live object
Crash(op, arg) ==
    /\ ~Live(mem, bufs, current)
    /\ last' = Call(op, arg, "crash", current, 0)
    /\ UNCHANGED <<mem, bufs, current, nextId>>

\* zipper::step_back()
step_back ==
    /\ Running
    /\ \/ Crash("step_back", 0)
       \/ /\ IF can_step_back(mem, current)
             THEN /\ current' = mem[current].parent
                  /\ last' = Call("step_back", 0, "ok", current, 1)
             ELSE /\ current' = current
                  /\ last' = Call("step_back", 0, "CannotStepBack", current, 0)
          /\ UNCHANGED <<mem, bufs, nextId>>

\* mutant of StepBackLoop: the loop runs until i == n instead of while i < n
RECURSIVE StepBackLoop_until(_, _, _, _, _, _)
StepBackLoop_until(m, bs, cur, k, done, ub) ==
    IF k = 0 THEN [cur |-> cur, res |-> "ok", moves |-> done, ub |-> ub]
    ELSE IF ~can_step_back(m, cur)
         THEN [cur |-> cur, res |-> "CannotStepBack", moves |-> done,
               ub |-> ub \/ ~Live(m, bs, cur)]
         ELSE StepBackLoop_until(m, bs, m[cur].parent, k - 1, done + 1,
                                 ub \/ ~Live(m, bs, cur))

\* the loop of zipper::step_back(int): the state after at most k further
\* iterations starting with the cursor at cur, done iterations so far
RECURSIVE StepBackLoop(_, _, _, _, _, _)
StepBackLoop(m, bs, cur, k, done, ub) ==
    IF k <= 0 THEN [cur |-> cur, res |-> "ok", moves |-> done, ub |-> ub]
    ELSE IF ~can_step_back(m, cur)
         THEN [cur |-> cur, res |-> "CannotStepBack", moves |-> done,
               ub |-> ub \/ ~Live(m, bs, cur)]
         ELSE StepBackLoop(m, bs, m[cur].parent, k - 1, done + 1,
                           ub \/ ~Live(m, bs, cur))

\* zipper::step_back(int n)
step_back_n(n) ==
    /\ Running
    /\ LET r == StepBackLoop(mem, bufs, current, n, 0, FALSE) IN
       \/ /\ r.ub
          /\ last' = Call("step_back_n", n, "crash", current, 0)
          /\ UNCHANGED <<mem, bufs, current, nextId>>
       \/ /\ current' = r.cur
          /\ last' = Call("step_back_n", n, r.res, current, r.moves)
          /\ UNCHANGED <<mem, bufs, nextId>>

\* zipper::step_forward(int branch)
step_forward(branch) ==
    /\ Running
    /\ \/ /\ branch >= 0
          /\ Crash("step_forward", branch)
       \/ /\ IF invalid_branch(mem, current, branch)
             THEN /\ current' = current
                  /\ last' = Call("step_forward", branch, "InvalidBranch", current, 0)
             ELSE /\ current' = branch_addr(mem, current, branch)
                  /\ last' = Call("step_forward", branch, "ok", current, 1)
          /\ UNCHANGED <<mem, bufs, nextId>>

\* zipper::entre_new_branch(value)
emplace_and_enter(v) ==
    /\ Running
    /\ \/ Crash("entre_new_branch", v)
       \/ \E k \in AllocChoices(bufs, GrowCap(bufs, mem[current].children)) :
            /\ mem' = EmplaceMem(mem, bufs, current, v, nextId, k)
            /\ bufs' = EmplaceBufs(mem, bufs, current, k)
            /\ current' = back_addr(mem', current)
            /\ nextId' = nextId + 1
            /\ last' = Call("entre_new_branch", v, "ok", current, 1)

\* entre_new_branch, explored while at most MaxNodes nodes were created
entre_new_branch(v) ==
    /\ nextId <= MaxNodes
    /\ emplace_and_enter(v)

Next ==
    \/ step_back
    \/ \E n \in Args : step_back_n(n)
    \/ \E i \in Args : step_forward(i)
    \/ \E v \in Values : entre_new_branch(v)

Spec == Init /\ [][Next]_vars

\* one more node than Spec, with a single value and single steps: enough
\* for a freed children buffer to be handed out again below a node whose
\* parent back-reference still points into it
NextReuse ==
    \/ step_back
    \/ \E i \in {0, 1} : step_forward(i)
    \/ (nextId <= MaxReuseNodes /\ emplace_and_enter(1))

SpecReuse == Init /\ [][NextReuse]_vars

\* ------------------------------------------------------ the demo (test.cpp)
DemoIters == 26    \* for (int i = 0; i < 26; ++i)
DemoPeriod == 6    \* i % 6
DemoResidue == 5   \* == 5
DemoBack == 5      \* z.step_back(5)
DemoRootValue == 0 - 1

\* zipper<int> z(-1)
InitDemo ==
    /\ mem = Store(<<>>, Root, NewNode(NULL, DemoRootValue, 0))
    /\ bufs = <<>>
    /\ current = Root
    /\ nextId = 1
    /\ last = Call("init", 0, "ok", Root, 0)

\* the iteration takes the step_back branch of the loop body
BackTurn(i) == i % DemoPeriod = DemoResidue

\* number of iterations below i that took the entre_new_branch branch
EntersBefore(i) == Cardinality({j \in 0..(i - 1) : ~BackTurn(j)})

Printed == last.op = "printTree"

\* the loop variable i at the loop test, recovered from the calls made so far
DemoI ==
    CHOOSE i \in 0..DemoIters :
        /\ EntersBefore(i) = nextId - 1
        /\ i > 0 => ((last.op = "step_back_n") <=> BackTurn(i - 1))

\* the loop was left: i reached 26, or an exception went to the handler
LoopEnded ==
    /\ ~Printed
    /\ (last.res = "CannotStepBack" \/ DemoI = DemoIters)

\* z.entre_new_branch(i)
demo_enter ==
    /\ ~Printed
    /\ ~LoopEnded
    /\ ~BackTurn(DemoI)
    /\ emplace_and_enter(DemoI)

\* z.step_back(5)
demo_step_back ==
    /\ ~Printed
    /\ ~LoopEnded
    /\ BackTurn(DemoI)
    /\ step_back_n(DemoBack)

\* concatenation of a sequence of sequences, first to last
RECURSIVE Flatten(_)
Flatten(ss) == IF ss = <<>> THEN <<>> ELSE Head(ss) \o Flatten(Tail(ss))

\* mutant of printTree: the children are written at their parent's depth
RECURSIVE printTree_samedepth(_, _, _)
printTree_samedepth(m, a, depth) ==
    <<[node |-> a, depth |-> depth, width |-> depth * 4, value |-> m[a].value]>>
    \o Flatten([i \in DOMAIN Kids(m, a) |->
                   printTree_samedepth(m, Kids(m, a)[i], depth)])

\* node::printTree: the lines written to output, one record per line: the
\* field width and the value (node and depth are history)
RECURSIVE printTree(_, _, _)
printTree(m, a, depth) ==
    <<[node |-> a, depth |-> depth, width |-> depth * 4, value |-> m[a].value]>>
    \o Flatten([i \in DOMAIN Kids(m, a) |->
                   printTree(m, Kids(m, a)[i], depth + 1)])

\* zipper::printTree(output)
call_printTree ==
    /\ Running
    /\ last' = [op |-> "printTree", arg |-> 0, res |-> "ok", from |-> current,
                moves |-> 0, out |-> printTree(mem, Root, 0)]
    /\ UNCHANGED <<mem, bufs, current, nextId>>

\* z.printTree(std::cout) after the loop and its handler
demo_print ==
    /\ LoopEnded
    /\ call_printTree

NextDemo == demo_enter \/ demo_step_back \/ demo_print

SpecDemo == InitDemo /\ [][NextDemo]_vars

\* ------------------------------------------------------------ traversals

\* a callback declared for an argument of kind takes can be called with an
\* argument of kind given (T = int: a node is not a value, nor a value a node)
Invocable(takes, given) == takes = given

\* node::foreach_child calls p(n.value)
ForeachPasses == "value"

\* the callback map_children hands to foreach_child is [&result, p](node& n)
MapCallbackTakes == "node"

\* node::map_children with p = identity, result type not void: built tells
\* whether the call can be instantiated, result is the vector returned
map_children(m, a) ==
    IF Invocable(MapCallbackTakes, ForeachPasses)
    THEN [built |-> TRUE,
          result |-> [i \in DOMAIN Kids(m, a) |-> m[Kids(m, a)[i]].value]]
    ELSE [built |-> FALSE, result |-> <<>>]

\* the folder (v, acc) -> acc ++ [v]
FoldAppend(v, acc) == Append(acc, v)

\* the loop of node::fold_children from child i on: res = f(v.value, res)
RECURSIVE FoldLoop(_, _, _, _)
FoldLoop(m, a, i, res) ==
    IF i > m[a].children.size THEN res
    ELSE FoldLoop(m, a, i + 1, FoldAppend(m[Kids(m, a)[i]].value, res))

\* node::fold_children(f, init) with f = FoldAppend, init = empty
fold_children(m, a) == FoldLoop(m, a, 1, <<>>)

\* zipper::map_branches(v -> v)
call_map_branches ==
    /\ Running
    /\ \/ Crash("map_branches", 0)
       \/ /\ LET r == map_children(mem, current) IN
               last' = [op |-> "map_branches", arg |-> 0,
                        res |-> IF r.built THEN "ok" ELSE "ill-formed",
                        from |-> current, moves |-> 0, out |-> r.result]
          /\ UNCHANGED <<mem, bufs, current, nextId>>

\* zipper::fold_children((v, acc) -> acc ++ [v], empty)
call_fold_children ==
    /\ Running
    /\ \/ Crash("fold_children", 0)
       \/ /\ last' = [op |-> "fold_children", arg |-> 0, res |-> "ok",
                       from |-> current, moves |-> 0,
                       out |-> fold_children(mem, current)]
          /\ UNCHANGED <<mem, bufs, current, nextId>>

NextTraverse == Next \/ call_map_branches \/ call_fold_children

SpecTraverse == Init /\ [][NextTraverse]_vars

\* trees over the values 0..NumValues below the root -1, built with
\* entre_new_branch and step_back() and printed at any time
NextPrint ==
    \/ step_back
    \/ \E v \in 0..NumValues : entre_new_branch(v)
    \/ call_printTree

SpecPrint == InitDemo /\ [][NextPrint]_vars

\* ------------------------------------------------------------------ queries

\* a call that returns a value: out is what it returned
Query(op, arg, out) ==
    [op |-> op, arg |-> arg, res |-> "ok", from |-> current, moves |-> 0,
     out |-> out]

\* the values an int-returning call may hand back when control flows off the
\* end of its body without a return statement: any int, represented by the
\* not-found sentinel, the first index and another index
AnyInt == {0 - 1, 0, 1}

\* the predicates tried with find_branch: p_k(v) is v == k
Holds(k, v) == v = k

\* the lambda node::find_branch hands to std::find_if: it evaluates p on the
\* child's value and returns nothing, so no child is ever reported as a match
FindLambda(k, n) == FALSE

\* node::find_branch: index of the first child the lambda accepts, else -1
node_find_branch(m, a, k) ==
    LET hits == {i \in DOMAIN Kids(m, a) : FindLambda(k, m[Kids(m, a)[i]])}
    IN IF hits = {} THEN 0 - 1
       ELSE (CHOOSE i \in hits : \A j \in hits : i <= j) - 1

\* zipper::find_branch: calls node::find_branch and drops its result; the
\* body has no return statement, so the caller receives an arbitrary int
find_branch(k) ==
    /\ Running
    /\ \/ Crash("find_branch", k)
       \/ /\ \E r \in AnyInt \cup {node_find_branch(mem, current, k)} :
               last' = Query("find_branch", k, r)
          /\ UNCHANGED <<mem, bufs, current, nextId>>

\* zipper::can_step_forward
can_step_forward(m, cur) == m[cur].children.size # 0

\* a call of zipper::can_step_back()
call_can_step_back ==
    /\ Running
    /\ \/ Crash("can_step_back", 0)
       \/ /\ last' = Query("can_step_back", 0, can_step_back(mem, current))
          /\ UNCHANGED <<mem, bufs, current, nextId>>

\* a call of zipper::can_step_forward()
call_can_step_forward ==
    /\ Running
    /\ \/ Crash("can_step_forward", 0)
       \/ /\ last' = Query("can_step_forward", 0, can_step_forward(mem, current))
          /\ UNCHANGED <<mem, bufs, current, nextId>>

NextQueries ==
    \/ Next
    \/ \E k \in Values : find_branch(k)
    \/ call_can_step_back
    \/ call_can_step_forward

SpecQueries == Init /\ [][NextQueries]_vars

\* the calls of the demo driver's pattern: no step_forward
NextNoForward ==
    \/ step_back
    \/ \E n \in Args : step_back_n(n)
    \/ \E v \in Values : entre_new_branch(v)

SpecNoForward == Init /\ [][NextNoForward]_vars

\* ------------------------------------------------------------------ claims

\* C1: the cursor always refers to a node of the tree (reachable from the
\* root by child links), never to storage a node occupied before its
\* parent's children buffer was relocated.
C1_CursorReachable == current \in InTree(mem)

\* C2: every non-root node's parent back-reference designates the current
\* location of the node whose children sequence contains it.
C2_ParentCorrect ==
    \A a \in InTree(mem) \ {Root} : mem[a].parent = ParentNode(mem, a)

\* C3: step_back() with the cursor on a non-root node of the tree succeeds
\* and leaves the cursor on that node's parent.
C3_StepBackToParent ==
    (last.op = "step_back" /\ last.from \in InTree(mem) \ {Root})
        => (last.res = "ok" /\ current = ParentNode(mem, last.from))


\* C4: step_back() with the cursor on the root fails with CannotStepBack and
\* leaves the cursor on the root and the tree unchanged.
C4_StepBackAtRoot ==
    [][(last'.op = "step_back" /\ current = Root)
        => /\ last'.res = "CannotStepBack"
           /\ current' = Root
           /\ mem' = mem
           /\ bufs' = bufs]_vars

W4_StepBackAtRoot ==
    /\ last.op = "step_back"
    /\ last.from = Root
    /\ last.res = "CannotStepBack"
    /\ current = Root
    /\ mem[Root].children.size > 0

\* C5: step_back(n), n >= 0, with the cursor on a node of the tree at depth
\* d: if n <= d it succeeds after exactly n moves with the cursor on the n-th
\* ancestor; if n > d it fails with CannotStepBack after d moves with the
\* cursor on the root.
C5_StepBackN ==
    (last.op = "step_back_n" /\ last.arg >= 0 /\ last.from \in InTree(mem))
        => LET d == Depth(mem, last.from) IN
           IF last.arg <= d
           THEN /\ last.res = "ok"
                /\ last.moves = last.arg
                /\ current = Ancestor(mem, last.from, last.arg)
           ELSE /\ last.res = "CannotStepBack"
                /\ last.moves = d
                /\ current = Root

\* C6: step_forward(index) fails with InvalidBranch when index < 0 or index
\* is not below the number of children of the focused node, and then leaves
\* the cursor and the tree unchanged.
C6_StepForwardInvalid ==
    [][(/\ last'.op = "step_forward"
        /\ \/ last'.arg < 0
           \/ /\ current \in InTree(mem)
              /\ last'.arg >= mem[current].children.size)
        => /\ last'.res = "InvalidBranch"
           /\ current' = current
           /\ mem' = mem
           /\ bufs' = bufs]_vars

W6_StepForwardInvalid ==
    /\ last.op = "step_forward"
    /\ last.res = "InvalidBranch"
    /\ current \in InTree(mem)
    /\ mem[current].children.size >= 1
    /\ last.arg = mem[current].children.size

\* C7: step_forward(index) with 0 <= index < number of children of the
\* focused node succeeds and moves the cursor to the child at position
\* index, the (index+1)-th child appended to it; the tree is unchanged.
C7_StepForwardValid ==
    [][(/\ last'.op = "step_forward"
        /\ current \in InTree(mem)
        /\ 0 <= last'.arg
        /\ last'.arg < mem[current].children.size)
        => /\ last'.res = "ok"
           /\ current' = Kids(mem, current)[last'.arg + 1]
           /\ Cardinality({k \in KidSet(mem, current) :
                             mem[k].id < mem[current'].id}) = last'.arg
           /\ mem' = mem
           /\ bufs' = bufs]_vars

W7_StepForwardValid ==
    /\ last.op = "step_forward"
    /\ last.res = "ok"
    /\ last.arg = 0
    /\ last.from \in InTree(mem)
    /\ mem[last.from].children.size >= 2
    /\ current = Kids(mem, last.from)[1]

\* C8: entre_new_branch(v) with the cursor on node c of the tree appends
\* exactly one new node with value v and no children as the last child of
\* c, with its parent back-reference designating c, and leaves the cursor on
\* the new node.
C8_EnterNewBranch ==
    [][(last'.op = "entre_new_branch" /\ current \in InTree(mem))
        => LET c == current
               new == [id |-> nextId, value |-> last'.arg, kids |-> <<>>]
           IN /\ last'.res = "ok"
              /\ c \in InTree(mem')
              /\ Shape(mem', c).kids = Append(Shape(mem, c).kids, new)
              /\ Cardinality(InTree(mem')) = Cardinality(InTree(mem)) + 1
              /\ current' = Kids(mem', c)[Len(Kids(mem', c))]
              /\ mem'[current'].parent = c]_vars

W8_EnterNewBranch ==
    /\ last.op = "entre_new_branch"
    /\ last.res = "ok"
    /\ last.from \in InTree(mem)
    /\ mem[last.from].children.size >= 2
    /\ current = Kids(mem, last.from)[mem[last.from].children.size]
    /\ mem[current].value = last.arg

\* t2 is t1 with children appended: no child of t1 changes its index or its
\* value, and where a node gained a child its earlier children are unchanged
\* with their whole subtrees
RECURSIVE Extends(_, _)
Extends(t1, t2) ==
    /\ t1.id = t2.id
    /\ t1.value = t2.value
    /\ Len(t1.kids) <= Len(t2.kids)
    /\ \A i \in DOMAIN t1.kids :
         IF Len(t1.kids) < Len(t2.kids)
         THEN t2.kids[i] = t1.kids[i]
         ELSE Extends(t1.kids[i], t2.kids[i])

\* the children of every node are in the order of their creation
AppendOrdered(m) ==
    \A a \in InTree(m) : \A i, j \in DOMAIN Kids(m, a) :
        i < j => m[Kids(m, a)[i]].id < m[Kids(m, a)[j]].id

\* C9: appending a child never changes the index, the value or the subtree
\* of a child the node already had, and the children of every node are in
\* the order in which they were appended.
C9_ChildOrderStable ==
    [][mem' # mem =>
          (Extends(Shape(mem, Root), Shape(mem', Root)) /\ AppendOrdered(mem'))]_vars

W9_ChildOrderStable ==
    /\ last.op = "entre_new_branch"
    /\ last.res = "ok"
    /\ last.from \in InTree(mem)
    /\ mem[last.from].children.size = 2
    /\ bufs[mem[last.from].children.buf].cap = 2
    /\ mem[Kids(mem, last.from)[1]].children.size > 0
    /\ current = Kids(mem, last.from)[2]

\* C10: entre_new_branch(v) followed by step_back() leaves the cursor where
\* it was before entre_new_branch, on a node whose last child carries v.
C10_RoundTrip ==
    [][(last.op = "entre_new_branch" /\ last.res = "ok" /\ last'.op = "step_back")
        => /\ last'.res = "ok"
           /\ current' = last.from
           /\ mem'[current'].children.size >= 1
           /\ mem'[back_addr(mem', current')].value = last.arg]_vars

W10_RoundTrip ==
    /\ last.op = "step_back"
    /\ last.res = "ok"
    /\ current \in InTree(mem)
    /\ mem[current].children.size >= 2
    /\ last.from = back_addr(mem, current)
    /\ mem[last.from].id = nextId - 1
    /\ mem[last.from].children.size = 0

\* C12: can_step_back() is true exactly when the cursor is not on the
\* root: the root's parent reference is absent and no other node's is.
C12_CanStepBack ==
    /\ \A a \in DOMAIN mem : (mem[a].parent = NULL) <=> (a = Root)
    /\ can_step_back(mem, current) <=> (current # Root)

W12_CanStepBack ==
    /\ last.op = "step_forward"
    /\ last.res = "ok"
    /\ current \in InTree(mem) \ {Root}
    /\ can_step_back(mem, current)

\* every parent back-reference on the path from the node at a to the root
\* designates the parent's current location
PathSound(m, a) ==
    \A n \in 0..(Depth(m, a) - 1) :
        m[Ancestor(m, a, n)].parent = Ancestor(m, a, n + 1)

\* C18: with entre_new_branch and step_back()/step_back(n) only, the cursor
\* always designates a node of the tree, no parent back-reference between
\* the cursor and the root is stale, and every successful step_back lands
\* on the true parent (step_back(n) on the true n-th ancestor).
C18_NoForwardPathSound ==
    /\ current \in InTree(mem)
    /\ Live(mem, bufs, current)
    /\ PathSound(mem, current)
    /\ last.res # "crash"
    /\ (last.op = "step_back" /\ last.res = "ok")
          => current = ParentNode(mem, last.from)
    /\ (last.op = "step_back_n" /\ last.arg >= 0)
          => /\ last.from \in InTree(mem)
             /\ last.moves <= Depth(mem, last.from)
             /\ current = Ancestor(mem, last.from, last.moves)

W18_NoForwardPathSound ==
    /\ last.op = "step_back"
    /\ last.res = "ok"
    /\ \E a \in InTree(mem) \ {Root} : mem[a].parent # ParentNode(mem, a)

\* C20: step_back(n) with n < 0 makes no move and does not fail, from any
\* cursor position; the cursor and the tree are unchanged.
C20_StepBackNegative ==
    [][(last'.op = "step_back_n" /\ last'.arg < 0)
        => /\ last'.res = "ok"
           /\ last'.moves = 0
           /\ current' = current
           /\ mem' = mem
           /\ bufs' = bufs]_vars

W20_StepBackNegative ==
    /\ last.op = "step_back_n"
    /\ last.arg < 0
    /\ last.res = "ok"
    /\ last.from = Root
    /\ current = Root
    /\ mem[Root].children.size > 0

\* what find_branch(p) has to return on the node at a: the index of the
\* first child whose value satisfies p, or -1 when there is none
FirstMatch(m, a, k) ==
    LET hits == {i \in DOMAIN Kids(m, a) : Holds(k, m[Kids(m, a)[i]].value)}
    IN IF hits = {} THEN 0 - 1
       ELSE (CHOOSE i \in hits : \A j \in hits : i <= j) - 1

\* C13: find_branch(p) returns i iff p holds on the value of child i of the
\* focused node and on no earlier child, and -1 iff p holds on no child.
C13_FindCorrect ==
    (last.op = "find_branch" /\ last.res = "ok" /\ last.from \in InTree(mem))
        => last.out = FirstMatch(mem, last.from, last.arg)

\* C17: only entre_new_branch changes the tree, by at most one node added
\* (exactly one when the cursor is on a node of the tree); every other call,
\* successful or failing, leaves it unchanged, and no node is ever removed
\* or re-attached elsewhere.
C17_NodeSetMonotone ==
    [][IF last'.op = "entre_new_branch" /\ last'.res = "ok"
       THEN /\ Extends(Shape(mem, Root), Shape(mem', Root))
            /\ Cardinality(InTree(mem')) <= Cardinality(InTree(mem)) + 1
            /\ current \in InTree(mem)
                 => Cardinality(InTree(mem')) = Cardinality(InTree(mem)) + 1
       ELSE /\ mem' = mem
            /\ bufs' = bufs]_vars

W17_NodeSetMonotone ==
    /\ last.op = "find_branch"
    /\ last.res = "ok"
    /\ Cardinality(InTree(mem)) = MaxNodes + 1
    /\ \E a \in InTree(mem) : mem[a].children.size >= 2

\* d(c): the number of consecutive step_back() calls that succeed starting
\* with the cursor at cur (counted up to 2 * MaxReuseNodes + 2 calls)
BackCount(m, bs, cur) ==
    StepBackLoop(m, bs, cur, 2 * MaxReuseNodes + 2, 0, FALSE).moves

\* C11: entre_new_branch increases d by exactly 1 and a successful
\* step_back() decreases d by exactly 1.
C11_DepthLaw ==
    [][/\ (last'.op = "entre_new_branch" /\ last'.res = "ok")
            => BackCount(mem', bufs', current') = BackCount(mem, bufs, current) + 1
       /\ (last'.op = "step_back" /\ last'.res = "ok")
            => BackCount(mem', bufs', current') = BackCount(mem, bufs, current) - 1]_vars

\* the values of the tree below the node at a
RECURSIVE ValueTree(_, _)
ValueTree(m, a) ==
    [value |-> m[a].value,
     kids |-> [i \in DOMAIN Kids(m, a) |-> ValueTree(m, Kids(m, a)[i])]]

\* the linear chain of the values lo..hi, lo on top
RECURSIVE Chain(_, _)
Chain(lo, hi) ==
    [value |-> lo, kids |-> IF lo = hi THEN <<>> ELSE <<Chain(lo + 1, hi)>>]

\* C14 as stated: when the loop of the demo is left, a step_back(5) has
\* failed with CannotStepBack (the exception is what ends the loop).
C14_DemoStepBackFails ==
    LoopEnded => (last.op = "step_back_n" /\ last.res = "CannotStepBack")

\* C14 amended: every step_back(5) of the demo succeeds, taking five steps
\* from depth 5 back to the root; the loop is left by i reaching 26, after
\* entre_new_branch(25), with no exception raised.
C14_DemoNoFailure ==
    /\ last.op = "step_back_n"
         => /\ last.res = "ok"
            /\ last.moves = DemoBack
            /\ Depth(mem, last.from) = DemoBack
            /\ current = Root
    /\ last.res \notin {"CannotStepBack", "InvalidBranch", "crash"}
    /\ LoopEnded
         => /\ DemoI = DemoIters
            /\ last.op = "entre_new_branch"
            /\ last.arg = DemoIters - 1
            /\ current \in InTree(mem)

W14_DemoNoFailure ==
    /\ LoopEnded
    /\ last.op = "entre_new_branch"
    /\ nextId = 23

\* C15: after the demo loop the root -1 has exactly the children 0, 6, 12,
\* 18, 24 in that order; 0, 6, 12 and 18 head the chains 0..4, 6..10, 12..16
\* and 18..22, and 24 has the single child 25.
C15_DemoTree ==
    (LoopEnded \/ Printed)
        => ValueTree(mem, Root) =
             [value |-> 0 - 1,
              kids |-> <<Chain(0, 4), Chain(6, 10), Chain(12, 16),
                         Chain(18, 22), Chain(24, 25)>>]

W15_DemoTree ==
    /\ Printed
    /\ Len(last.out) = 23
    /\ mem[Root].children.size = 5

\* position of the line written for the node at a
LineOf(out, a) == CHOOSE i \in DOMAIN out : out[i].node = a

\* the last line before line i written one level higher
LineAbove(out, i) ==
    CHOOSE j \in 1..(i - 1) :
        /\ out[j].depth = out[i].depth - 1
        /\ \A k \in (j + 1)..(i - 1) : out[k].depth # out[i].depth - 1

\* out lists the tree of m in pre-order, children in append order, every
\* node once, with its depth, the field width depth * 4 and its value
PreOrder(m, out) ==
    /\ Len(out) = Cardinality(InTree(m))
    /\ {out[i].node : i \in DOMAIN out} = InTree(m)
    /\ out[1].node = Root
    /\ out[1].depth = 0
    /\ \A i \in DOMAIN out :
         /\ out[i].depth = Depth(m, out[i].node)
         /\ out[i].width = 4 * out[i].depth
         /\ out[i].value = m[out[i].node].value
         /\ i > 1 => /\ out[i].depth <= out[i - 1].depth + 1
                     /\ out[LineAbove(out, i)].node = ParentNode(m, out[i].node)
    /\ \A a \in InTree(m) : \A x, y \in DOMAIN Kids(m, a) :
         x < y => LineOf(out, Kids(m, a)[x]) < LineOf(out, Kids(m, a)[y])

\* the (depth, value) pairs of the lines
DepthValues(out) == [i \in DOMAIN out |-> <<out[i].depth, out[i].value>>]

\* C19: printTree writes every node of the tree exactly once in pre-order
\* from the root at depth 0, children in append order, each value with its
\* depth (field width depth * 4); printed right after entre_new_branch(0),
\* (1), (2) on zipper<int>(-1) the lines are (0,-1), (1,0), (2,1), (3,2) and
\* the cursor is at depth 3.
C19_PrintTree ==
    [][last'.op = "printTree"
         => /\ PreOrder(mem, last'.out)
            /\ (/\ last.op = "entre_new_branch"
                /\ last.arg = 2
                /\ ValueTree(mem, Root) = Chain(0 - 1, 2))
                 => /\ DepthValues(last'.out)
                         = <<<<0, 0 - 1>>, <<1, 0>>, <<2, 1>>, <<3, 2>>>>
                    /\ Depth(mem, current) = 3]_vars

W19_PrintTree ==
    /\ last.op = "printTree"
    /\ DepthValues(last.out) = <<<<0, 0 - 1>>, <<1, 0>>, <<2, 1>>, <<3, 2>>>>
    /\ Depth(mem, current) = 3

\* the values of the immediate children of the node at a, in append order
ChildValues(m, a) == [i \in DOMAIN Kids(m, a) |-> m[Kids(m, a)[i]].value]

\* C16: folding the children of the focused node with (v, acc) -> acc ++ [v]
\* from the empty sequence and mapping the identity over them both give the
\* values of the immediate children in append order.
C16_FoldEqualsMap ==
    /\ (last.op = "fold_children" /\ last.res # "crash")
         => last.out = ChildValues(mem, current)
    /\ (last.op = "map_branches" /\ last.res # "crash")
         => /\ last.res = "ok"
            /\ last.out = ChildValues(mem, current)

====
